---- MODULE Spec2Model ----
(***************************************************************************)
(* Tool-calling orchestration of promptcoder-cli: the interactive turn     *)
(* loop of CodePromptApp (src/src/app.ts), the dispatch of tool calls to   *)
(* the three tool sets, and the retry wrapper of the two provider          *)
(* adapters (src/src/llm/*.ts).                                            *)
(*                                                                         *)
(* Text is modelled as a sequence of tokens (TLA+ strings): the literals   *)
(* the code concatenates are tokens of their own, so that the content the  *)
(* loop builds can be compared token by token.                             *)
(***************************************************************************)
EXTENDS Integers, Sequences, FiniteSets, TLC

(***************************************************************************)
(* Bounds of the model.                                                    *)
(***************************************************************************)
\* tool calls in one model response
MaxCalls == 2
\* user prompts in one session
MaxTurns == 2
\* a further prompt is entered only while the history has at most this many messages
MaxPromptHistory == 6
\* times the model re-issues its previous response instead of following its script
MaxStutter == 1

\* Change events a file watcher receives.
MaxChanges == 3

(***************************************************************************)
(* Program constants.                                                      *)
(***************************************************************************)
\* app.ts:209  let maxIterations = 25
maxIterations == 25
\* app.ts:249  if (lastToolCalls.length > 3) lastToolCalls.shift()
KeepLast == 3

(***************************************************************************)
(* Text helpers.                                                           *)
(***************************************************************************)
\* `${i + 1}` : decimal rendering of a small positive number
ToStr(n) == <<"1", "2", "3", "4", "5", "6", "7", "8", "9">>[n]

RECURSIVE Join(_, _)
\* Array.prototype.join: the elements of parts (token sequences) separated by sep
Join(parts, sep) ==
  IF parts = <<>> THEN <<>>
  ELSE IF Len(parts) = 1 THEN parts[1]
  ELSE parts[1] \o sep \o Join(Tail(parts), sep)

RECURSIVE StringifyPairs(_)
StringifyPairs(pairs) ==
  IF pairs = <<>> THEN <<>>
  ELSE <<"\"", pairs[1][1], "\":\"", pairs[1][2], "\"">>
       \o (IF Len(pairs) > 1 THEN <<",">> ELSE <<>>)
       \o StringifyPairs(Tail(pairs))

\* JSON.stringify of a parameters object (its keys in insertion order)
JSONStringify(parameters) == <<"{">> \o StringifyPairs(parameters) \o <<"}">>

(***************************************************************************)
(* Tool sets (getTools of each set) and the world the tools act on.        *)
(***************************************************************************)
basicToolNames ==
  {"read_file", "write_file", "read_directory", "create_directory",
   "delete_file", "file_exists"}

advancedToolNames ==
  {"edit_file_diff", "insert_lines", "delete_lines", "search_in_files",
   "create_checkpoint", "list_checkpoints", "restore_checkpoint", "show_file_diff"}

sandboxToolNames ==
  {"deploy_to_sandbox", "sync_to_sandbox", "list_sandboxes", "get_sandbox_status",
   "delete_sandbox", "start_code_sync", "stop_code_sync", "get_sync_status",
   "get_sandbox_templates"}

\* The tool calls the model may issue: a call is a name and a parameters object.
Calls ==
  { [name |-> "read_file",      parameters |-> << <<"file_path", "a.txt">> >>],
    [name |-> "read_file",      parameters |-> << <<"file_path", "missing.txt">> >>],
    [name |-> "list_checkpoints", parameters |-> <<>>],
    [name |-> "list_sandboxes", parameters |-> <<>>],
    [name |-> "frobulate",      parameters |-> <<>>] }

\* Files of the working directory: a.txt exists, missing.txt does not. No checkpoint
\* has been created, and the sandbox provider cannot be reached.
FileExists(path) == path = "a.txt"

\* The text of a.txt is "Tool notes": after the blank line of read_file's header it
\* reads like the separator that the Anthropic client splits Tool messages at.
FileContents(path) == <<"Tool ", "notes">>

\* The body of a tool, run inside executeTool's try block: it returns a text
\* or throws an Error with a message.
ToolBody(call) ==
  IF call.name = "read_file"
  THEN IF FileExists(call.parameters[1][2])
       THEN [threw |-> FALSE,
             text |-> <<"File contents of ", call.parameters[1][2], ":", "\n\n">>
                      \o FileContents(call.parameters[1][2])]
       ELSE [threw |-> TRUE,
             text |-> <<"ENOENT: no such file or directory, open '",
                        call.parameters[1][2], "'">>]
  ELSE IF call.name = "list_checkpoints"
  THEN [threw |-> FALSE, text |-> <<"No checkpoints created yet.">>]
  ELSE IF call.name = "list_sandboxes"
  THEN [threw |-> TRUE, text |-> <<"fetch failed">>]
  ELSE [threw |-> TRUE, text |-> <<"Unknown tool: ", call.name>>]

\* Variant: executeTool without its catch block.
CatchToolErrorMissing(name, out) == out

\* catch (error) { return `Error executing ${name}: ${error.message}` }
CatchToolError(name, out) ==
  IF out.threw
  THEN [threw |-> FALSE, text |-> <<"Error executing ", name, ": ">> \o out.text]
  ELSE out

\* FileTools.executeTool / AdvancedTools.executeTool: try { switch ... } catch
ExecuteTool(call) == CatchToolError(call.name, ToolBody(call))

\* SandboxTools.executeTool: the unconfigured early return, then the same try/catch
SandboxExecuteTool(call, configured) ==
  IF ~configured
  THEN [threw |-> FALSE,
        text |-> <<"Error: Sandbox provider not configured. Please run \"promptcoder config\" to set up sandbox deployment.">>]
  ELSE CatchToolError(call.name, ToolBody(call))

\* Variant: no final else branch, the basic tool set takes every other name.
RouteWithoutElse(name) ==
  IF name \in advancedToolNames THEN "advanced"
  ELSE IF name \in sandboxToolNames THEN "sandbox"
  ELSE "basic"

\* The name lists of the three tool sets as the app constructs them.
RegisteredTools ==
  [basic |-> basicToolNames, advanced |-> advancedToolNames, sandbox |-> sandboxToolNames]

\* Variant: the sets are tested in the order of their construction.
RouteInRegistrationOrder(sets, name) ==
  IF name \in sets.basic THEN "basic"
  ELSE IF name \in sets.advanced THEN "advanced"
  ELSE IF name \in sets.sandbox THEN "sandbox"
  ELSE "none"

\* app.ts:258-272: the if / else-if chain over the name lists that getTools() of
\* each set yields at the time of the call ("none": unknown tool)
RouteIn(sets, name) ==
  IF name \in sets.advanced THEN "advanced"
  ELSE IF name \in sets.basic THEN "basic"
  ELSE IF name \in sets.sandbox THEN "sandbox"
  ELSE "none"

\* app.ts:260-272: which tool set executes a call ("none": unknown tool)
Route(name) == RouteIn(RegisteredTools, name)

\* `Error: Unknown tool "${toolCall.name}"`
UnknownToolResult(name) == <<"Error: Unknown tool \"", name, "\"">>

\* The outcome of awaiting the routed executeTool for a call.
Dispatch(call, configured) ==
  IF Route(call.name) = "sandbox" THEN SandboxExecuteTool(call, configured)
  ELSE ExecuteTool(call)

(***************************************************************************)
(* Loop detection (app.ts:241-249).                                        *)
(***************************************************************************)
\* `${call.name}(${JSON.stringify(call.parameters)})`
CallSignature(call) == <<call.name, "(">> \o JSONStringify(call.parameters) \o <<")">>

\* currentToolCalls.join('|')
ToolCallsStr(toolCalls) ==
  Join([k \in 1..Len(toolCalls) |-> CallSignature(toolCalls[k])], <<"|">>)

\* Variant: the abort as soon as the previous signature is repeated once.
LoopDetectedOnRepeat(last, cur) ==
  /\ Len(last) >= 1
  /\ last[Len(last)] = cur

\* lastToolCalls.length >= 2 && lastToolCalls.slice(-2).every(prev => prev === cur)
LoopDetected(last, cur) ==
  /\ Len(last) >= 2
  /\ \A k \in {Len(last) - 1, Len(last)} : last[k] = cur

\* Variant: the oldest signature is never evicted.
PushSignatureWithoutShift(last, cur) == Append(last, cur)

\* lastToolCalls.push(cur); if (lastToolCalls.length > 3) lastToolCalls.shift()
PushSignature(last, cur) ==
  LET pushed == Append(last, cur)
  IN  IF Len(pushed) > KeepLast THEN Tail(pushed) ELSE pushed

(***************************************************************************)
(* The combined Tool message content (app.ts:276-280); idx counts from 0.  *)
(***************************************************************************)
\* Variant: each result put in front of the earlier ones.
CombineResultInFront(combined, n, idx, result) ==
  IF n = 1 THEN result
  ELSE <<ToStr(idx + 1), " result: ">> \o result
       \o (IF idx = 0 THEN <<>> ELSE <<"\n\n", "Tool ">>) \o combined

CombineResult(combined, n, idx, result) ==
  IF n = 1 THEN result
  ELSE combined \o (IF idx = 0 THEN <<>> ELSE <<"\n\n", "Tool ">>)
                \o <<ToStr(idx + 1), " result: ">> \o result

(***************************************************************************)
(* The provider's answer and its parsing by callAPI                        *)
(* (anthropic-client.ts:122-137, openai-client.ts:100-108).                *)
(***************************************************************************)
\* LLMConfig.provider
Clients == {"anthropic", "openai"}

\* JavaScript's undefined (and null): a value that is no list and no text.
Undefined == [k \in {0} |-> "undefined"]

RECURSIVE ParsePairs(_)
ParsePairs(tokens) ==
  IF tokens = <<>> THEN <<>>
  ELSE << <<tokens[2], tokens[4]>> >>
       \o ParsePairs(SubSeq(tokens, IF Len(tokens) > 5 THEN 7 ELSE 6, Len(tokens)))

\* JSON.parse of the text of an object with string values
JSONParse(text) == ParsePairs(SubSeq(text, 2, Len(text) - 1))

\* What the vendor sends for an answer of the model with the tool calls calls: the
\* content blocks of an Anthropic message; the message of the first choice of an
\* OpenAI completion, whose tool_calls are absent or empty when no tool is called.
VendorResponses(client, calls) ==
  LET text == IF calls = <<>> THEN <<"Done.">> ELSE <<>>
  IN  IF client = "anthropic"
      THEN {[content |->
               (IF text = <<>> THEN <<>>
                ELSE <<[type |-> "text", text |-> text, name |-> "", input |-> <<>>]>>)
               \o [k \in 1..Len(calls) |->
                     [type |-> "tool_use", text |-> <<>>, name |-> calls[k].name,
                      input |-> calls[k].parameters]]]}
      ELSE {[content |-> (IF text = <<>> THEN Undefined ELSE text),
             tool_calls |-> tc] :
              tc \in (IF calls = <<>> THEN {Undefined, <<>>}
                      ELSE {[k \in 1..Len(calls) |->
                               [id |-> <<"call_", ToStr(k)>>, type |-> "function",
                                function |-> [name |-> calls[k].name,
                                              arguments |-> JSONStringify(calls[k].parameters)]]]})}

\* Variant: no fallback, the value is passed on as it is.
OrElseMissing(value, fallback) == value

\* value || fallback, for a value that is undefined, null, or a list or text
OrElse(value, fallback) == IF value = Undefined THEN fallback ELSE value

RECURSIVE AnthropicBlocks(_, _, _)
\* for (const block of response.content): text blocks are concatenated, tool_use
\* blocks are pushed to toolCalls
AnthropicBlocks(blocks, content, toolCalls) ==
  IF blocks = <<>> THEN [content |-> content, toolCalls |-> toolCalls]
  ELSE LET block == blocks[1]
       IN  IF block.type = "text"
           THEN AnthropicBlocks(Tail(blocks), content \o block.text, toolCalls)
           ELSE IF block.type = "tool_use"
           THEN AnthropicBlocks(Tail(blocks), content,
                  Append(toolCalls, [name |-> block.name, parameters |-> block.input]))
           ELSE AnthropicBlocks(Tail(blocks), content, toolCalls)

\* message.tool_calls?.map(call => ({name, parameters: JSON.parse(arguments)}))
OpenAIToolCalls(tool_calls) ==
  IF tool_calls = Undefined THEN Undefined
  ELSE [k \in 1..Len(tool_calls) |->
          [name |-> tool_calls[k].function.name,
           parameters |-> JSONParse(tool_calls[k].function.arguments)]]

\* The LLMResponse that callAPI builds from the vendor's answer.
callAPI(client, wire) ==
  IF client = "anthropic"
  THEN AnthropicBlocks(wire.content, <<>>, <<>>)
  ELSE [content |-> OrElse(wire.content, <<>>),
        toolCalls |-> OrElse(OpenAIToolCalls(wire.tool_calls), <<>>)]

(***************************************************************************)
(* formatMessagesForAnthropic (anthropic-client.ts:23-96).                 *)
(* A formatted message is its role, its text (a user prompt) and its       *)
(* content blocks.                                                         *)
(***************************************************************************)
\* How fast the clock runs while a request is formatted: the number of Date.now()
\* calls that fall into one millisecond (0: all of them).
ReadsPerMs == {0, 1}

\* Date.now() at its n-th call (n from 0) of one formatting pass: never decreasing
DateNow(perMs, n) == IF perMs = 0 THEN 0 ELSE n \div perMs

\* Variant: the id without the index of the call.
ToolUseIdWithoutIndex(time, idx) == <<"call_", time>>

\* `call_${Date.now()}_${i}`: the two numbers stand for their decimal rendering
ToolUseId(time, idx) == <<"call_", time, "_", idx>>

\* Where the separator '\n\nTool ' begins in a text.
SeparatorAt(text) ==
  {p \in 1..(Len(text) - 1) : text[p] = "\n\n" /\ text[p + 1] = "Tool "}

RECURSIVE PartsFrom(_, _, _)
\* The parts of text from position start on, cut at the separators at marks.
PartsFrom(text, start, marks) ==
  IF marks = {} THEN <<SubSeq(text, start, Len(text))>>
  ELSE LET p == CHOOSE q \in marks : \A r \in marks : q <= r
       IN  <<SubSeq(text, start, p - 1)>> \o PartsFrom(text, p + 2, marks \ {p})

\* String.prototype.split('\n\nTool ')
Split(text) == PartsFrom(text, 1, SeparatorAt(text))

NonEmpty(part) == part # <<>>

\* message.content.split('\n\nTool ').filter(Boolean)
SplitToolResults(content) == SelectSeq(Split(content), NonEmpty)

\* The decimal numbers that ToStr renders.
IsDigits(token) == \E n \in 1..9 : token = ToStr(n)

\* result.replace(/^Tool \d+ result: /, '')
StripLabel(result) ==
  IF /\ Len(result) >= 3
     /\ result[1] = "Tool "
     /\ IsDigits(result[2])
     /\ result[3] = " result: "
  THEN SubSeq(result, 4, Len(result))
  ELSE result

TextBlock(text) ==
  [type |-> "text", text |-> text, id |-> <<>>, name |-> "", input |-> <<>>]

ToolUseBlock(id, call) ==
  [type |-> "tool_use", text |-> <<>>, id |-> id, name |-> call.name,
   input |-> call.parameters]

\* {type: 'tool_result', tool_use_id, content}
ToolResultBlock(id, content) ==
  [type |-> "tool_result", text |-> content, id |-> id, name |-> "", input |-> <<>>]

Min(a, b) == IF a < b THEN a ELSE b

\* A Tool message: one user message per tool_result block.
FormatToolMessage(message, lastToolCallIds) ==
  LET toolResults == SplitToolResults(message.content)
  IN  IF Len(toolResults) = 1 /\ Len(lastToolCallIds) = 1
      THEN <<[role |-> "user", text |-> <<>>,
              blocks |-> <<ToolResultBlock(lastToolCallIds[1], message.content)>>]>>
      ELSE [j \in 1..Min(Len(toolResults), Len(lastToolCallIds)) |->
              LET result == IF j = 1 THEN toolResults[1]
                            ELSE <<"Tool ">> \o toolResults[j]
              IN  [role |-> "user", text |-> <<>>,
                   blocks |-> <<ToolResultBlock(lastToolCallIds[j], StripLabel(result))>>]]

RECURSIVE FormatFrom(_, _, _, _, _, _)
\* for (const message of messages): k is the index of the next message, reads the
\* number of Date.now() calls made so far; pushed[j] are the messages pushed to
\* formatted for messages[j], in order
FormatFrom(messages, k, pushed, lastToolCallIds, reads, perMs) ==
  IF k > Len(messages) THEN pushed
  ELSE LET message == messages[k]
           n == Len(message.toolCalls)
           ids == [j \in 1..n |-> ToolUseId(DateNow(perMs, reads + j - 1), j - 1)]
       IN  IF message.role = "user"
           THEN FormatFrom(messages, k + 1,
                  Append(pushed, <<[role |-> "user", text |-> message.content,
                                    blocks |-> <<>>]>>),
                  lastToolCallIds, reads, perMs)
           ELSE IF message.role = "assistant"
           THEN FormatFrom(messages, k + 1,
                  Append(pushed,
                    <<[role |-> "assistant", text |-> <<>>,
                       blocks |-> (IF message.content # <<>>
                                   THEN <<TextBlock(message.content)>> ELSE <<>>)
                                  \o [j \in 1..n |->
                                        ToolUseBlock(ids[j], message.toolCalls[j])]]>>),
                  IF n > 0 THEN ids ELSE lastToolCallIds, reads + n, perMs)
           ELSE FormatFrom(messages, k + 1,
                  Append(pushed, FormatToolMessage(message, lastToolCallIds)),
                  lastToolCallIds, reads, perMs)

\* What the formatting pushes for each message of the history.
PushedForAnthropic(messages, perMs) == FormatFrom(messages, 1, <<>>, <<>>, 0, perMs)

RECURSIVE Flatten(_)
Flatten(groups) == IF groups = <<>> THEN <<>> ELSE groups[1] \o Flatten(Tail(groups))

\* The messages of the request, in the order they were pushed.
formatMessagesForAnthropic(messages, perMs) == Flatten(PushedForAnthropic(messages, perMs))

(***************************************************************************)
(* formatMessagesForOpenAI (openai-client.ts:42-79).                       *)
(***************************************************************************)
\* message.toolCallId: reading a property that the message does not have
ToolCallIdOf(message) ==
  IF "toolCallId" \in DOMAIN message THEN message.toolCallId ELSE Undefined

\* `call_${index}`: the number stands for its decimal rendering
ToolCallId(index) == <<"call_", index>>

\* One formatted message for each message of the history, at the same index.
formatMessagesForOpenAI(messages) ==
  [k \in 1..Len(messages) |->
     LET message == messages[k]
     IN  IF message.role = "user"
         THEN [role |-> "user", content |-> message.content,
               tool_calls |-> Undefined, tool_call_id |-> Undefined]
         ELSE IF message.role = "assistant"
         THEN [role |-> "assistant", content |-> message.content,
               tool_calls |->
                 (IF message.toolCalls # Undefined /\ Len(message.toolCalls) > 0
                  THEN [j \in 1..Len(message.toolCalls) |->
                          [id |-> ToolCallId(j - 1), type |-> "function",
                           function |->
                             [name |-> message.toolCalls[j].name,
                              arguments |-> JSONStringify(message.toolCalls[j].parameters)]]]
                  ELSE Undefined),
               tool_call_id |-> Undefined]
         ELSE [role |-> "tool", content |-> message.content, tool_calls |-> Undefined,
               tool_call_id |-> OrElse(ToolCallIdOf(message), ToolCallId(0))]]

(***************************************************************************)
(* generateResponseWithHistory of the two adapters                         *)
(* (openai-client.ts:30-40, anthropic-client.ts:18-21 and 98-112).         *)
(* A vendor request is its system parameter and its messages.              *)
(***************************************************************************)
\* The text of the system preamble, the same in both adapters.
SystemPreamble == <<"You are a helpful coding assistant.">>

\* openai-client.ts:31-36: const systemMessage = { role: 'system', content: ... }
systemMessage ==
  [role |-> "system", content |-> SystemPreamble, tool_calls |-> Undefined,
   tool_call_id |-> Undefined]

\* openai-client.ts:38: [systemMessage, ...this.formatMessagesForOpenAI(messages)]
OpenAIRequest(messages) ==
  [system |-> Undefined, messages |-> <<systemMessage>> \o formatMessagesForOpenAI(messages)]

\* anthropic-client.ts:105-112: requestParams = { messages: messages, system: ... }
AnthropicRequest(messages, perMs) ==
  [system |-> SystemPreamble, messages |-> formatMessagesForAnthropic(messages, perMs)]

\* Variant: the system message is inserted into the array the caller handed over.
generateResponseWithHistoryUnshift(client, messages, perMs) ==
  [request |-> IF client = "openai" THEN OpenAIRequest(messages)
               ELSE AnthropicRequest(messages, perMs),
   messages |-> <<[role |-> "system", content |-> SystemPreamble, toolCalls |-> <<>>]>>
                \o messages]

\* The request a call sends, and the caller's array (the history) after the call:
\* both adapters build new arrays and write nothing to the one they are given.
generateResponseWithHistory(client, messages, perMs) ==
  [request |-> IF client = "openai" THEN OpenAIRequest(messages)
               ELSE AnthropicRequest(messages, perMs),
   messages |-> messages]

(***************************************************************************)
(* State.                                                                  *)
(***************************************************************************)
VARIABLES
  conversationHistory,  \* CodePromptApp.conversationHistory: sequence of messages
  pc,                   \* where the turn is: "idle", "generate", "dispatch", "awaitTool"
  iteration,            \* continueConversation: let iteration
  lastToolCalls,        \* continueConversation: let lastToolCalls (signatures)
  response,             \* response.toolCalls of the generation being processed
  i,                    \* index of the tool call being processed (from 0)
  combinedResults,      \* let combinedResults
  sandboxManager,       \* SandboxTools.sandboxManager !== null
  reports,              \* console reports of the current turn
  genCalls,             \* generateResponseWithHistory calls made for the current prompt
  running,              \* indices of the tool calls whose executeTool is in flight
  execLog,              \* the current round's tool calls: starts, and ends with their result
  turns,                \* prompts entered so far
  script,               \* the model's behaviour: the tool-call lists it cycles through
  pos,                  \* index in script of its latest tool-calling response (0: none)
  stutters,             \* times it re-issued its previous response
  adapter,              \* retryWithBackoff: which client runs it, "anthropic" or "openai"
  rpc,                  \* retryWithBackoff: "call", "sleep", "returned", "thrown", "off"
  attempt,              \* retryWithBackoff: let attempt
  lastError,            \* retryWithBackoff: let lastError
  outcome,              \* what retryWithBackoff returned or threw
  attempts,             \* invocations of operation() so far
  errs,                 \* the errors operation() raised, in order
  sleeps,               \* the delays passed to sleep(), in order
  toolSets,             \* dispatch: the name lists of the three tool sets
  toolCall,             \* dispatch: the name of the call being routed
  executedBy,           \* dispatch: the set whose executeTool ran ("": not yet routed)
  pendingChanges,       \* FileWatcher.pendingChanges.get(sandboxId): <<>> or <<the Set>>
  syncTimers,           \* FileWatcher.syncTimers.get(sandboxId): a timer id, 0 for none
  armedTimers,          \* the timeouts that are set and neither cleared nor fired
  awaiting,             \* changedFiles of the onFileChange calls being awaited
  filesSynced,          \* watchInfo.filesSynced
  changes,              \* the paths of the change events queued so far, in order
  passed                \* the change events whose path was passed to onFileChange

vars ==
  <<conversationHistory, pc, iteration, lastToolCalls, response, i, combinedResults,
    sandboxManager, reports, genCalls, running, execLog, turns, script, pos, stutters,
    adapter, rpc, attempt, lastError, outcome, attempts, errs, sleeps,
    toolSets, toolCall, executedBy,
    pendingChanges, syncTimers, armedTimers, awaiting, filesSynced, changes, passed>>

loopVars ==
  <<conversationHistory, pc, iteration, lastToolCalls, response, i, combinedResults,
    sandboxManager, reports, genCalls, running, execLog, turns, script, pos, stutters>>

retryVars == <<adapter, rpc, attempt, lastError, outcome, attempts, errs, sleeps>>

dispatchVars == <<toolSets, toolCall, executedBy>>

\* The variables of the components that are followed on their own.
watcherVars ==
  <<pendingChanges, syncTimers, armedTimers, awaiting, filesSynced, changes, passed>>

otherVars == <<dispatchVars, watcherVars>>

\* Non-empty tool-call lists of at most MaxCalls calls.
ToolCallLists == UNION {[1..n -> Calls] : n \in 1..MaxCalls}

PaletteA == <<[name |-> "read_file", parameters |-> << <<"file_path", "a.txt">> >>]>>
PaletteB == <<[name |-> "read_file", parameters |-> << <<"file_path", "missing.txt">> >>]>>

\* Behaviours of the model: it repeats one tool-call list, or cycles through a
\* pattern of two lists that loop detection lets pass.
Scripts ==
  {<<l>> : l \in ToolCallLists} \cup {<<PaletteA, PaletteB, PaletteB>>}

\* The script has a call that the sandbox tool set executes.
UsesSandbox(sc) ==
  \E j \in 1..Len(sc) : \E k \in 1..Len(sc[j]) : sc[j][k].name \in sandboxToolNames

\* Variant: the Tool message overwrites the Assistant message it answers.
PushReplacingLast(history, message) ==
  IF message.role = "tool" /\ history # <<>>
  THEN [history EXCEPT ![Len(history)] = message]
  ELSE Append(history, message)

\* Variant: an Assistant message that only requests tools is not stored.
PushWithoutToolCalling(history, message) ==
  IF message.role = "assistant" /\ message.toolCalls # <<>>
  THEN history
  ELSE Append(history, message)

\* this.conversationHistory.push(message)
Push(history, message) == Append(history, message)

UserMessage == [role |-> "user", content |-> <<"prompt">>, toolCalls |-> <<>>]

AssistantMessage(content, toolCalls) ==
  [role |-> "assistant", content |-> content, toolCalls |-> toolCalls]

ToolMessage(content) == [role |-> "tool", content |-> content, toolCalls |-> <<>>]

NoError == [status |-> 0, type |-> "", code |-> ""]

\* No retryWithBackoff call is being followed.
RetryOff ==
  /\ adapter = "anthropic"
  /\ rpc = "off"
  /\ attempt = 0
  /\ lastError = NoError
  /\ outcome = [kind |-> "none"]
  /\ attempts = 0
  /\ errs = <<>>
  /\ sleeps = <<>>

\* No single dispatch is being followed.
DispatchOff ==
  /\ toolSets = RegisteredTools
  /\ toolCall = ""
  /\ executedBy = ""

\* A FileWatcher after startWatching: nothing queued, no timer.
WatcherInit ==
  /\ pendingChanges = <<>>
  /\ syncTimers = 0
  /\ armedTimers = {}
  /\ awaiting = <<>>
  /\ filesSynced = 0
  /\ changes = <<>>
  /\ passed = {}

OtherOff == DispatchOff /\ WatcherInit

Init ==
  /\ RetryOff
  /\ OtherOff
  /\ conversationHistory = <<>>
  /\ pc = "idle"
  /\ iteration = 0
  /\ lastToolCalls = <<>>
  /\ response = <<>>
  /\ i = 0
  /\ combinedResults = <<>>
  /\ reports = {}
  /\ genCalls = 0
  /\ running = {}
  /\ execLog = <<>>
  /\ turns = 0
  /\ script \in Scripts
  /\ sandboxManager \in (IF UsesSandbox(script) THEN BOOLEAN ELSE {FALSE})
  /\ pos = 0
  /\ stutters = 0

(***************************************************************************)
(* continueConversation (app.ts:208-304).                                  *)
(***************************************************************************)
\* Variant: while (true), the loop has no iteration limit.
LoopConditionMissing(iter) == TRUE

\* Variant: the loop condition off by one.
LoopConditionInclusive(iter) == iter <= maxIterations

\* while (iteration < maxIterations)
LoopCondition(iter) == iter < maxIterations

\* app.ts:299: if (iteration >= maxIterations) { warn about the limit }
PostLoopReports(iter) == IF iter >= maxIterations THEN {"max_iterations"} ELSE {}

\* Leaving the while loop (break, or the condition failing) and returning.
ExitLoop(iter, reps) ==
  /\ pc' = "idle"
  /\ iteration' = iter
  /\ reports' = reps \cup PostLoopReports(iter)
  /\ UNCHANGED genCalls

\* The loop head: the condition, iteration++, and the generate call being issued.
EnterLoop(iter, reps) ==
  IF LoopCondition(iter)
  THEN /\ pc' = "generate"
       /\ iteration' = iter + 1
       /\ genCalls' = genCalls + 1
       /\ reports' = reps
  ELSE ExitLoop(iter, reps)

\* Variant: no catch block, the error leaves executeInteractivePrompt.
CatchInPromptMissing ==
  /\ pc' = "crashed"
  /\ running' = {}
  /\ UNCHANGED <<iteration, genCalls, reports>>

\* The catch block of executeInteractivePrompt (app.ts:202-205).
CatchInPrompt ==
  /\ pc' = "idle"
  /\ reports' = reports \cup {"failed"}
  /\ running' = {}
  /\ UNCHANGED <<iteration, genCalls>>

\* Variant: executeInteractivePrompt is called without await, the prompt loop reads
\* the next prompt while the turn is still running.
AwaitTurnMissing == TRUE

\* startInteractive (app.ts:181): await this.executeInteractivePrompt(prompt); the
\* while loop reaches its next inquirer.prompt only when the turn has settled.
AwaitTurn == pc = "idle"

\* Variant: the counter and the buffer are fields of the app, kept from turn to turn.
TurnScratchKept(iter, last) == [iteration |-> iter, lastToolCalls |-> last]

\* app.ts:210-211: let iteration = 0; let lastToolCalls: string[] = [];
\* locals of continueConversation, created by every call of it.
TurnScratch(iter, last) == [iteration |-> 0, lastToolCalls |-> <<>>]

\* executeInteractivePrompt (app.ts:193-201) up to the first generate call.
Prompt ==
  /\ AwaitTurn
  /\ turns < MaxTurns
  /\ Len(conversationHistory) <= MaxPromptHistory
  /\ conversationHistory' = Push(conversationHistory, UserMessage)
  /\ turns' = turns + 1
  /\ lastToolCalls' = TurnScratch(iteration, lastToolCalls).lastToolCalls
  /\ response' = <<>>
  /\ i' = 0
  /\ combinedResults' = <<>>
  /\ running' = {}
  /\ execLog' = <<>>
  /\ pc' = "generate"
  /\ iteration' = TurnScratch(iteration, lastToolCalls).iteration + 1
  /\ genCalls' = 1
  /\ reports' = {}
  /\ UNCHANGED <<sandboxManager, script, pos, stutters>>

\* What the model may answer: the next list of its script, its previous tool-calling
\* response once more, or no tool call at all.
ModelAnswers ==
  LET next == (pos % Len(script)) + 1
  IN  {[toolCalls |-> script[next], pos |-> next, stutters |-> stutters],
       [toolCalls |-> <<>>, pos |-> pos, stutters |-> stutters]}
      \cup (IF pos > 0 /\ stutters < MaxStutter /\ script[next] # script[pos]
            THEN {[toolCalls |-> script[pos], pos |-> pos, stutters |-> stutters + 1]}
            ELSE {})

\* app.ts:223-296: the generate call returns what callAPI built from the vendor's
\* answer (the loop is the same for both clients); the Assistant message is appended;
\* loop detection; the first tool call is reached, or the turn ends.
GenerateReturns ==
  /\ pc = "generate"
  /\ \E a \in ModelAnswers, client \in Clients :
     \E wire \in VendorResponses(client, a.toolCalls) :
       LET toolCalls == callAPI(client, wire).toolCalls
           content == callAPI(client, wire).content
           cur == ToolCallsStr(toolCalls)
       IN  /\ pos' = a.pos
           /\ stutters' = a.stutters
           /\ conversationHistory' =
                Push(conversationHistory, AssistantMessage(content, toolCalls))
           /\ response' = toolCalls
           /\ i' = 0
           /\ combinedResults' = <<>>
           /\ execLog' = <<>>
           /\ IF toolCalls # Undefined /\ Len(toolCalls) > 0
              THEN IF LoopDetected(lastToolCalls, cur)
                   THEN /\ ExitLoop(iteration, reports \cup {"loop"})
                        /\ UNCHANGED lastToolCalls
                   ELSE /\ lastToolCalls' = PushSignature(lastToolCalls, cur)
                        /\ pc' = "dispatch"
                        /\ UNCHANGED <<iteration, reports, genCalls>>
              ELSE /\ ExitLoop(iteration, reports \cup {"completed"})
                   /\ UNCHANGED lastToolCalls
  /\ UNCHANGED <<sandboxManager, running, turns, script>>

\* The generate call raises (a fatal provider error, or retries exhausted).
GenerateThrows ==
  /\ pc = "generate"
  /\ CatchInPrompt
  /\ UNCHANGED <<conversationHistory, lastToolCalls, response, i, combinedResults,
                 sandboxManager, execLog, turns, script, pos, stutters>>

\* app.ts:274-292: a call's result is known: combine it, go to the next call, or
\* append the Tool message and continue the while loop.
FinishCall(result, event) ==
  LET combined == CombineResult(combinedResults, Len(response), i, result)
  IN  /\ combinedResults' = combined
      /\ i' = i + 1
      /\ execLog' = Append(execLog, [ev |-> event, idx |-> i, result |-> result])
      /\ IF i + 1 < Len(response)
         THEN /\ pc' = "dispatch"
              /\ UNCHANGED <<conversationHistory, iteration, reports, genCalls>>
         ELSE /\ conversationHistory' = Push(conversationHistory, ToolMessage(combined))
              /\ EnterLoop(iteration, reports)

\* app.ts:255-272: the next tool call is routed; an unknown name gets its error text
\* at once, any other call's executeTool is awaited.
StartTool ==
  /\ pc = "dispatch"
  /\ LET call == response[i + 1]
     IN  IF Route(call.name) = "none"
         THEN /\ FinishCall(UnknownToolResult(call.name), "unknown")
              /\ UNCHANGED running
         ELSE /\ pc' = "awaitTool"
              /\ running' = running \cup {i}
              /\ execLog' = Append(execLog, [ev |-> "start", idx |-> i, result |-> <<>>])
              /\ UNCHANGED <<conversationHistory, iteration, reports, genCalls, i,
                             combinedResults>>
  /\ UNCHANGED <<lastToolCalls, response, sandboxManager, turns, script, pos, stutters>>

\* The awaited executeTool settles.
ToolReturns ==
  /\ pc = "awaitTool"
  /\ LET out == Dispatch(response[i + 1], sandboxManager)
     IN  IF out.threw
         THEN /\ CatchInPrompt
              /\ UNCHANGED <<conversationHistory, i, combinedResults, execLog>>
         ELSE /\ FinishCall(out.text, "return")
              /\ running' = running \ {i}
  /\ UNCHANGED <<lastToolCalls, response, sandboxManager, turns, script, pos, stutters>>

Next ==
  \/ Prompt /\ UNCHANGED <<retryVars, otherVars>>
  \/ GenerateReturns /\ UNCHANGED <<retryVars, otherVars>>
  \/ GenerateThrows /\ UNCHANGED <<retryVars, otherVars>>
  \/ StartTool /\ UNCHANGED <<retryVars, otherVars>>
  \/ ToolReturns /\ UNCHANGED <<retryVars, otherVars>>

Spec == Init /\ [][Next]_vars

\* The loop under the assumption that every awaited operation settles: a generate
\* call returns or raises, a tool execution returns, and the loop itself goes on to
\* the next tool call. Nothing obliges the user to enter a further prompt.
SpecLive ==
  /\ Init
  /\ [][Next]_vars
  /\ WF_vars((GenerateReturns \/ GenerateThrows) /\ UNCHANGED <<retryVars, otherVars>>)
  /\ WF_vars(StartTool /\ UNCHANGED <<retryVars, otherVars>>)
  /\ WF_vars(ToolReturns /\ UNCHANGED <<retryVars, otherVars>>)

(***************************************************************************)
(* retryWithBackoff of the two adapters (anthropic-client.ts:140-217,      *)
(* openai-client.ts:111-183).                                              *)
(***************************************************************************)
\* maxRetries: number = 3
maxRetries == 3
\* baseDelay: number = 1000
baseDelay == 1000

\* Math.random() * 1000 lies in [0, 1000): the samples the model draws
JitterSamples == {0, 999}

\* The failures a provider call raises: status (0: none), error.error.type (the
\* Anthropic SDK), error.code (the OpenAI SDK).
ProviderErrors(client) ==
  IF client = "anthropic"
  THEN { [status |-> 429, type |-> "rate_limit_error", code |-> ""],
         [status |-> 529, type |-> "overloaded_error", code |-> ""],
         [status |-> 0,   type |-> "overloaded_error", code |-> ""],
         [status |-> 502, type |-> "", code |-> ""],
         [status |-> 503, type |-> "", code |-> ""],
         [status |-> 504, type |-> "", code |-> ""],
         [status |-> 500, type |-> "api_error", code |-> ""],
         [status |-> 401, type |-> "authentication_error", code |-> ""],
         [status |-> 403, type |-> "permission_error", code |-> ""],
         [status |-> 400, type |-> "invalid_request_error", code |-> ""],
         [status |-> 0,   type |-> "", code |-> ""] }
  ELSE { [status |-> 429, type |-> "", code |-> "rate_limit_exceeded"],
         [status |-> 429, type |-> "", code |-> "insufficient_quota"],
         [status |-> 529, type |-> "", code |-> ""],
         [status |-> 502, type |-> "", code |-> ""],
         [status |-> 503, type |-> "", code |-> ""],
         [status |-> 504, type |-> "", code |-> ""],
         [status |-> 500, type |-> "", code |-> "server_error"],
         [status |-> 500, type |-> "", code |-> ""],
         [status |-> 401, type |-> "", code |-> "invalid_api_key"],
         [status |-> 403, type |-> "", code |-> ""],
         [status |-> 400, type |-> "", code |-> "invalid_request_error"],
         [status |-> 0,   type |-> "", code |-> ""] }

\* Variant: every server error status counts as retryable.
isRetryableErrorAny5xx(client, error) ==
  \/ error.status >= 500
  \/ error.status = 429
  \/ error.type \in {"overloaded_error", "rate_limit_error"}
  \/ error.code \in {"rate_limit_exceeded", "server_error"}

\* Variant: every client error status counts as retryable too.
isRetryableErrorAny4xx(client, error) ==
  \/ error.status \in {429, 502, 503, 504, 529}
  \/ error.status \in 400..499
  \/ error.type \in {"overloaded_error", "rate_limit_error"}
  \/ error.code \in {"rate_limit_exceeded", "server_error"}

\* AnthropicClient.isRetryableError / OpenAIClient.isRetryableError
isRetryableError(client, error) ==
  IF client = "anthropic"
  THEN \/ error.status \in {429, 502, 503, 504, 529}
       \/ error.type \in {"overloaded_error", "rate_limit_error"}
  ELSE \/ error.status \in {429, 502, 503, 504}
       \/ error.code \in {"rate_limit_exceeded", "server_error"}

\* AnthropicClient.enhanceError / OpenAIClient.enhanceError: the kind of the message
enhanceError(client, error) ==
  IF client = "anthropic"
  THEN IF error.status = 429 \/ error.type = "rate_limit_error" THEN "Rate limit exceeded"
       ELSE IF error.status = 529 \/ error.type = "overloaded_error" THEN "overloaded"
       ELSE IF error.status = 401 THEN "Invalid API key"
       ELSE IF error.status = 403 THEN "Access forbidden"
       ELSE IF error.status >= 500 THEN "experiencing issues"
       ELSE "API Error"
  ELSE IF error.status = 429 \/ error.code = "rate_limit_exceeded" THEN "Rate limit exceeded"
       ELSE IF error.status = 401 THEN "Invalid API key"
       ELSE IF error.status = 403 THEN "Access forbidden"
       ELSE IF error.status >= 500 THEN "experiencing issues"
       ELSE "API Error"

RECURSIVE Pow2(_)
\* Math.pow(2, n)
Pow2(n) == IF n = 0 THEN 1 ELSE 2 * Pow2(n - 1)

\* Variant: the delay grows linearly with the attempt number.
BackoffDelayLinear(n, jitter) == baseDelay * (n + 1) + jitter

\* baseDelay * Math.pow(2, attempt) + Math.random() * 1000
BackoffDelay(n, jitter) == baseDelay * Pow2(n) + jitter

\* Variant: the retry budget tested with <= instead of <.
ShouldRetryOnceMore(client, error, n) ==
  isRetryableError(client, error) /\ n <= maxRetries

\* Variant: one retry fewer than maxRetries.
ShouldRetryOneFewer(client, error, n) ==
  isRetryableError(client, error) /\ n < maxRetries - 1

\* if (this.isRetryableError(error)) { if (attempt < maxRetries) { sleep; continue } }
ShouldRetry(client, error, n) == isRetryableError(client, error) /\ n < maxRetries

\* A call of retryWithBackoff begins: attempt = 0 and operation() is invoked.
RetryInit ==
  /\ adapter \in {"anthropic", "openai"}
  /\ rpc = "call"
  /\ attempt = 0
  /\ lastError = NoError
  /\ outcome = [kind |-> "none"]
  /\ attempts = 1
  /\ errs = <<>>
  /\ sleeps = <<>>

\* The application as constructed, no prompt entered.
LoopOff ==
  /\ conversationHistory = <<>>
  /\ pc = "idle"
  /\ iteration = 0
  /\ lastToolCalls = <<>>
  /\ response = <<>>
  /\ i = 0
  /\ combinedResults = <<>>
  /\ sandboxManager = FALSE
  /\ reports = {}
  /\ genCalls = 0
  /\ running = {}
  /\ execLog = <<>>
  /\ turns = 0
  /\ script = <<PaletteA>>
  /\ pos = 0
  /\ stutters = 0

InitRetry == LoopOff /\ OtherOff /\ RetryInit

\* return await operation()
OperationReturns ==
  /\ rpc = "call"
  /\ rpc' = "returned"
  /\ outcome' = [kind |-> "value", value |-> "response"]
  /\ UNCHANGED <<adapter, attempt, lastError, attempts, errs, sleeps>>

\* operation() raises: the catch block
OperationThrows ==
  /\ rpc = "call"
  /\ \E error \in ProviderErrors(adapter) :
       /\ lastError' = error
       /\ errs' = Append(errs, error)
       /\ IF ShouldRetry(adapter, error, attempt)
          THEN /\ \E jitter \in JitterSamples :
                    sleeps' = Append(sleeps, BackoffDelay(attempt, jitter))
               /\ rpc' = "sleep"
               /\ UNCHANGED outcome
          ELSE /\ rpc' = "thrown"
               /\ outcome' = [kind |-> "error", message |-> enhanceError(adapter, error)]
               /\ UNCHANGED sleeps
  /\ UNCHANGED <<adapter, attempt, attempts>>

\* sleep(delay) resolves; continue: attempt++, the loop condition, operation() again
SleepEnds ==
  /\ rpc = "sleep"
  /\ attempt' = attempt + 1
  /\ IF attempt + 1 <= maxRetries
     THEN /\ rpc' = "call"
          /\ attempts' = attempts + 1
          /\ UNCHANGED outcome
     ELSE /\ rpc' = "thrown"
          /\ outcome' = [kind |-> "error", message |-> enhanceError(adapter, lastError)]
          /\ UNCHANGED attempts
  /\ UNCHANGED <<adapter, lastError, errs, sleeps>>

NextRetry ==
  \/ OperationReturns /\ UNCHANGED <<loopVars, otherVars>>
  \/ OperationThrows /\ UNCHANGED <<loopVars, otherVars>>
  \/ SleepEnds /\ UNCHANGED <<loopVars, otherVars>>

SpecRetry == InitRetry /\ [][NextRetry]_vars

(***************************************************************************)
(* The dispatch of one tool call (app.ts:258-272), followed on its own for *)
(* any name lists the three tool sets may return from getTools().          *)
(***************************************************************************)
\* Names that tool sets may list and that the model may call.
ToolNamePool == {c.name : c \in Calls}

\* The shipped lists, each possibly listing further names of the pool as well.
ToolSetFamilies ==
  {[basic |-> basicToolNames \cup x, advanced |-> advancedToolNames \cup y,
    sandbox |-> sandboxToolNames \cup z] :
     x \in SUBSET ToolNamePool, y \in SUBSET ToolNamePool, z \in SUBSET ToolNamePool}

InitDispatch ==
  /\ LoopOff
  /\ RetryOff
  /\ WatcherInit
  /\ toolSets \in ToolSetFamilies
  /\ toolCall \in ToolNamePool
  /\ executedBy = ""

\* One pass through the if / else-if chain for the call.
DispatchCall ==
  /\ executedBy = ""
  /\ executedBy' = RouteIn(toolSets, toolCall)
  /\ UNCHANGED <<toolSets, toolCall>>

NextDispatch == DispatchCall /\ UNCHANGED <<loopVars, retryVars, watcherVars>>

SpecDispatch == InitDispatch /\ [][NextDispatch]_vars

(***************************************************************************)
(* Single-shot executePrompt (app.ts:306-361). It works with the app's     *)
(* tool sets and client and with locals of its own: response, the index of *)
(* the for...of loop, the awaited call. The history is the one of a new    *)
(* app, or one that holds an earlier exchange.                             *)
(***************************************************************************)
ShotHistories ==
  {<<>>, <<UserMessage, AssistantMessage(<<"done">>, <<>>)>>}

\* What the model may answer to the single prompt.
ShotAnswers == ToolCallLists \cup {<<>>}

InitShot ==
  /\ RetryOff
  /\ OtherOff
  /\ conversationHistory \in ShotHistories
  /\ pc = "idle"
  /\ iteration = 0
  /\ lastToolCalls = <<>>
  /\ response = <<>>
  /\ i = 0
  /\ combinedResults = <<>>
  /\ sandboxManager \in BOOLEAN
  /\ reports = {}
  /\ genCalls = 0
  /\ running = {}
  /\ execLog = <<>>
  /\ turns = 0
  /\ script = <<PaletteA>>
  /\ pos = 0
  /\ stutters = 0

\* app.ts:307-321: the try block up to the generateResponse call being issued.
ShotPrompt ==
  /\ pc = "idle"
  /\ genCalls = 0
  /\ pc' = "shotGenerate"
  /\ genCalls' = genCalls + 1
  /\ UNCHANGED <<conversationHistory, iteration, lastToolCalls, response, i,
                 combinedResults, sandboxManager, reports, running, execLog, turns,
                 script, pos, stutters>>

\* Variant: the results are pushed as a Tool message and the model is called again,
\* as continueConversation does.
AfterShotToolsLikeLoop ==
  /\ conversationHistory' = Push(conversationHistory, ToolMessage(<<"results">>))
  /\ pc' = "shotGenerate"
  /\ genCalls' = genCalls + 1
  /\ UNCHANGED reports

\* app.ts:354-356: after the for...of loop the results are dropped and the method
\* reports completion and returns.
AfterShotTools ==
  /\ pc' = "shotDone"
  /\ reports' = {"completed"}
  /\ UNCHANGED <<conversationHistory, genCalls>>

\* app.ts:322-356: generateResponse returns; the first tool call is reached, or the
\* method returns.
ShotGenerateReturns ==
  /\ pc = "shotGenerate"
  /\ \E answer \in ShotAnswers, client \in Clients :
     \E wire \in VendorResponses(client, answer) :
       LET toolCalls == callAPI(client, wire).toolCalls
       IN  /\ response' = toolCalls
           /\ i' = 0
           /\ execLog' = <<>>
           /\ IF toolCalls # Undefined /\ Len(toolCalls) > 0
              THEN /\ pc' = "shotDispatch"
                   /\ UNCHANGED <<conversationHistory, genCalls, reports>>
              ELSE AfterShotTools
  /\ UNCHANGED <<iteration, lastToolCalls, combinedResults, sandboxManager, running,
                 turns, script, pos, stutters>>

\* app.ts:357-360: the catch block of executePrompt.
CatchInShot ==
  /\ pc' = "shotDone"
  /\ reports' = {"failed"}
  /\ running' = {}
  /\ UNCHANGED <<conversationHistory, genCalls>>

\* generateResponse raises.
ShotGenerateThrows ==
  /\ pc = "shotGenerate"
  /\ CatchInShot
  /\ UNCHANGED <<iteration, lastToolCalls, response, i, combinedResults, sandboxManager,
                 execLog, turns, script, pos, stutters>>

\* app.ts:352: a call's result is logged; the for...of loop takes the next call.
ShotFinishCall(result, event) ==
  /\ i' = i + 1
  /\ execLog' = Append(execLog, [ev |-> event, idx |-> i, result |-> result])
  /\ IF i + 1 < Len(response)
     THEN /\ pc' = "shotDispatch"
          /\ UNCHANGED <<conversationHistory, genCalls, reports>>
     ELSE AfterShotTools

\* app.ts:333-350: the next tool call is routed by the same chain as in the loop.
ShotStartTool ==
  /\ pc = "shotDispatch"
  /\ LET call == response[i + 1]
     IN  IF Route(call.name) = "none"
         THEN /\ ShotFinishCall(UnknownToolResult(call.name), "unknown")
              /\ UNCHANGED running
         ELSE /\ pc' = "shotAwait"
              /\ running' = running \cup {i}
              /\ execLog' = Append(execLog, [ev |-> "start", idx |-> i, result |-> <<>>])
              /\ UNCHANGED <<conversationHistory, genCalls, reports, i>>
  /\ UNCHANGED <<iteration, lastToolCalls, response, combinedResults, sandboxManager,
                 turns, script, pos, stutters>>

\* The awaited executeTool settles.
ShotToolReturns ==
  /\ pc = "shotAwait"
  /\ LET out == Dispatch(response[i + 1], sandboxManager)
     IN  IF out.threw
         THEN /\ CatchInShot
              /\ UNCHANGED <<i, execLog>>
         ELSE /\ ShotFinishCall(out.text, "return")
              /\ running' = running \ {i}
  /\ UNCHANGED <<iteration, lastToolCalls, response, combinedResults, sandboxManager,
                 turns, script, pos, stutters>>

NextShot ==
  \/ ShotPrompt /\ UNCHANGED <<retryVars, otherVars>>
  \/ ShotGenerateReturns /\ UNCHANGED <<retryVars, otherVars>>
  \/ ShotGenerateThrows /\ UNCHANGED <<retryVars, otherVars>>
  \/ ShotStartTool /\ UNCHANGED <<retryVars, otherVars>>
  \/ ShotToolReturns /\ UNCHANGED <<retryVars, otherVars>>

SpecShot == InitShot /\ [][NextShot]_vars

(***************************************************************************)
(* FileWatcher (unnamed/part_008): the changes of one sandbox whose        *)
(* watcher stays registered. Timers are numbered in the order they are set.*)
(***************************************************************************)
\* Paths that change.
WatchedFiles == {"a.ts", "b.ts"}

\* queueFileForSync (134-155), called by the watcher's event handlers
queueFileForSync(filePath) ==
  LET timer == Len(changes) + 1
  IN  /\ Len(changes) < MaxChanges
      /\ pendingChanges' = (IF pendingChanges = <<>> THEN <<{filePath}>>
                            ELSE <<pendingChanges[1] \cup {filePath}>>)
      /\ armedTimers' = (armedTimers \ {syncTimers}) \cup {timer}
      /\ syncTimers' = timer
      /\ changes' = Append(changes, filePath)
      /\ UNCHANGED <<awaiting, filesSynced, passed>>

\* finally { this.pendingChanges.delete(sandboxId); this.syncTimers.delete(sandboxId) }
Finally ==
  /\ pendingChanges' = <<>>
  /\ syncTimers' = 0

\* A timeout fires: processPendingChanges (157-168) up to its await; the callback is
\* called with the files pending at this moment.
TimerFires ==
  \E timer \in armedTimers :
    /\ armedTimers' = armedTimers \ {timer}
    /\ IF pendingChanges = <<>> \/ pendingChanges[1] = {}
       THEN UNCHANGED <<awaiting, passed>>
       ELSE /\ awaiting' = Append(awaiting, pendingChanges[1])
            /\ passed' = passed \cup {k \in 1..Len(changes) : changes[k] \in pendingChanges[1]}
    /\ UNCHANGED <<pendingChanges, syncTimers, filesSynced, changes>>

\* An awaited onFileChange settles: processPendingChanges (169-183) after its await;
\* the statistics on success, the catch block on failure, the finally block always.
CallbackSettles ==
  \E j \in 1..Len(awaiting), ok \in BOOLEAN :
    /\ awaiting' = SubSeq(awaiting, 1, j - 1) \o SubSeq(awaiting, j + 1, Len(awaiting))
    /\ filesSynced' = (IF ok THEN filesSynced + Cardinality(awaiting[j]) ELSE filesSynced)
    /\ Finally
    /\ UNCHANGED <<armedTimers, changes, passed>>

InitWatcher == LoopOff /\ RetryOff /\ DispatchOff /\ WatcherInit

NextWatcher ==
  \/ (\E filePath \in WatchedFiles : queueFileForSync(filePath))
       /\ UNCHANGED <<loopVars, retryVars, dispatchVars>>
  \/ TimerFires /\ UNCHANGED <<loopVars, retryVars, dispatchVars>>
  \/ CallbackSettles /\ UNCHANGED <<loopVars, retryVars, dispatchVars>>

\* Every timeout that is set and not cleared fires, and every awaited callback
\* settles; nothing obliges a file to change.
SpecWatcher ==
  /\ InitWatcher
  /\ [][NextWatcher]_vars
  /\ WF_vars(TimerFires /\ UNCHANGED <<loopVars, retryVars, dispatchVars>>)
  /\ WF_vars(CallbackSettles /\ UNCHANGED <<loopVars, retryVars, dispatchVars>>)

(***************************************************************************)
(* Vocabulary of the properties.                                           *)
(***************************************************************************)
\* A turn has reached a terminal state.
TurnOver == pc = "idle" /\ turns > 0

IsToolCalling(m) == m.role = "assistant" /\ m.toolCalls # <<>>

IsToolMessage(m) == m.role = "tool"

\* Index of the User message that opened the latest turn (0 before any prompt).
TurnStart ==
  LET h == conversationHistory
  IN  CHOOSE k \in 0..Len(h) :
        /\ k > 0 => h[k].role = "user"
        /\ \A j \in (k + 1)..Len(h) : h[j].role # "user"

\* The messages the latest turn appended after its User message.
TurnMessages == SubSeq(conversationHistory, TurnStart + 1, Len(conversationHistory))

\* Signatures of the tool-calling generations of the latest turn, in order.
TurnSignatures ==
  LET calling == SelectSeq(TurnMessages, IsToolCalling)
  IN  [k \in 1..Len(calling) |-> ToolCallsStr(calling[k].toolCalls)]

\* Tool rounds the latest turn has completed.
TurnRounds == Len(SelectSeq(TurnMessages, IsToolMessage))

LastMessage == conversationHistory[Len(conversationHistory)]

(***************************************************************************)
(* C1. Loop detection.                                                     *)
(***************************************************************************)
\* C1 (as stated): a generation whose tool-call signature equals that of the
\* immediately preceding tool-calling generation of the turn is where the turn is
\* aborted by loop detection: no state of a turn shows two consecutive equal
\* signatures without the loop abort having been reported.
C1_AbortAtSecondOccurrence ==
  LET s == TurnSignatures
      n == Len(s)
  IN  (n >= 2 /\ s[n] = s[n - 1]) => "loop" \in reports

\* C1 (amended): the turn is aborted by loop detection exactly when a generation's
\* signature equals the signatures of the two immediately preceding tool-calling
\* generations of the turn: at that third consecutive occurrence the turn is over,
\* a second occurrence alone never aborts, and there is no fourth.
C1_AbortAtThirdOccurrence ==
  LET s == TurnSignatures
      n == Len(s)
      triple == n >= 3 /\ s[n] = s[n - 1] /\ s[n - 1] = s[n - 2]
  IN  /\ ("loop" \in reports) <=> triple
      /\ triple => /\ pc = "idle"
                   /\ LastMessage.toolCalls # <<>>
                   /\ ToolCallsStr(LastMessage.toolCalls) = s[n]
      /\ \A k \in 3..(n - 1) : ~(s[k] = s[k - 1] /\ s[k - 1] = s[k - 2])

\* C1 witness: a loop abort late in a turn, after the buffer has evicted signatures.
C1_Witness ==
  /\ "loop" \in reports
  /\ iteration > KeepLast + 1
  /\ Len(TurnSignatures) = iteration

(***************************************************************************)
(* C2. The iteration limit.                                                *)
(***************************************************************************)
\* C2: a turn whose generations all returned tool calls, without loop abort, stops
\* in the max-iterations state right after the Tool message of round 25: exactly 25
\* generate calls were made, and no turn ever issues a 26th.
C2_StopsAfterRound25 ==
  /\ genCalls <= maxIterations
  /\ (TurnOver /\ reports \cap {"completed", "loop", "failed"} = {})
       => /\ reports = {"max_iterations"}
          /\ genCalls = maxIterations
          /\ TurnRounds = maxIterations
          /\ LastMessage.role = "tool"
  /\ TurnRounds = maxIterations
       => /\ TurnOver
          /\ "max_iterations" \in reports
          /\ genCalls = maxIterations

C2_Witness ==
  /\ TurnOver
  /\ reports = {"max_iterations"}
  /\ genCalls = 25
  /\ TurnRounds = 25

(***************************************************************************)
(* C3. Tool calls and their Tool message.                                  *)
(***************************************************************************)
\* Every Assistant message with tool calls is followed at once by a Tool message,
\* and that by no second Tool message.
WellPaired(h) ==
  \A k \in 1..Len(h) :
    IsToolCalling(h[k])
      => /\ k < Len(h)
         /\ h[k + 1].role = "tool"
         /\ (k + 2 <= Len(h) => h[k + 2].role # "tool")

\* C3: whenever a turn has reached a terminal state, every Assistant message of the
\* history that carries tool calls is followed, before the next Assistant message,
\* by exactly one Tool message.
C3_ToolCallsAnswered == TurnOver => WellPaired(conversationHistory)

(***************************************************************************)
(* C4. One terminal outcome.                                               *)
(***************************************************************************)
\* C4: a finished turn reports exactly one outcome; a turn whose last generation
\* returned no tool calls reports Completed only; max-iterations is reported only
\* when round 25's tool calls were executed; a loop abort is not reported as
\* max-iterations.
C4_ExactlyOneOutcome ==
  TurnOver
    => /\ Cardinality(reports) = 1
       /\ (LastMessage.role = "assistant" /\ LastMessage.toolCalls = <<>>)
            => reports = {"completed"}
       /\ "max_iterations" \in reports => TurnRounds = maxIterations
       /\ "loop" \in reports => "max_iterations" \notin reports

(***************************************************************************)
(* C5-C8. Dispatch of the tool calls of one response.                      *)
(***************************************************************************)
\* r occurs in the text c at position p.
OccursAt(c, r, p) == p + Len(r) - 1 <= Len(c) /\ SubSeq(c, p, p + Len(r) - 1) = r

RECURSIVE InOrderFrom(_, _, _)
\* The texts rs occur in c from position from on, one after the other, in order.
InOrderFrom(c, rs, from) ==
  IF rs = <<>> THEN TRUE
  ELSE \E p \in from..Len(c) :
         /\ OccursAt(c, rs[1], p)
         /\ InOrderFrom(c, Tail(rs), p + Len(rs[1]))

IsEnd(e) == e.ev \in {"return", "unknown"}

\* The tool calls of the current round that have a result, in the order they got it.
Ended == SelectSeq(execLog, IsEnd)

\* The current round is complete: its Tool message is the last message.
RoundComplete ==
  /\ response # <<>>
  /\ conversationHistory # <<>>
  /\ LastMessage.role = "tool"

\* After a complete round the loop went on: the next generation was issued, unless
\* the round was the 25th.
LoopWentOn == genCalls = TurnRounds + 1 \/ TurnRounds = maxIterations

\* C5: the calls of a response are executed one at a time in the order listed: at
\* most one execution is in flight, call k+1 starts only after call k has its
\* result, and the Tool message holds the results in that order.
C5_SequentialInOrder ==
  /\ Cardinality(running) <= 1
  /\ running = (IF pc = "awaitTool" THEN {i} ELSE {})
  /\ \A j \in 1..Len(execLog) :
       LET e == execLog[j]
           endedBefore == Len(SelectSeq(SubSeq(execLog, 1, j - 1), IsEnd))
       IN  /\ e.ev \in {"start", "unknown"} => e.idx = endedBefore
           /\ e.ev = "start" /\ j < Len(execLog)
                => execLog[j + 1].ev = "return" /\ execLog[j + 1].idx = e.idx
           /\ e.ev = "return" => j > 1 /\ execLog[j - 1].ev = "start"
  /\ RoundComplete
       => /\ Len(Ended) = Len(response)
          /\ \A k \in 1..Len(Ended) : Ended[k].idx = k - 1
          /\ InOrderFrom(LastMessage.content,
                         [k \in 1..Len(Ended) |-> Ended[k].result], 1)

\* C5 witness: a complete round of two awaited calls with different results.
C5_Witness ==
  /\ RoundComplete
  /\ Len(execLog) = 4
  /\ Ended[1].ev = "return" /\ Ended[2].ev = "return"
  /\ Ended[1].result # Ended[2].result

RECURSIVE ClaimedContent(_, _)
\* result_1, then "\n\nTool i result: " and result_i for i = 2..N (k: next index)
ClaimedContent(rs, k) ==
  IF k > Len(rs) THEN <<>>
  ELSE (IF k = 1 THEN <<>> ELSE <<"\n\n", "Tool ", ToStr(k), " result: ">>)
       \o rs[k] \o ClaimedContent(rs, k + 1)

\* C6: the Tool message content for N calls is result_1 unlabeled, followed for
\* i = 2..N by "\n\nTool i result: " and result_i.
C6_OnlyFirstUnlabeled ==
  RoundComplete
    => LastMessage.content = ClaimedContent([k \in 1..Len(Ended) |-> Ended[k].result], 1)

IsUnknown(call) ==
  call.name \notin (basicToolNames \cup advancedToolNames \cup sandboxToolNames)

\* C7: a call whose name is in no tool set raises nothing: its result is the text
\* Error: Unknown tool "<name>", which is the Tool message content or its part for
\* that call; the other calls of the response are dispatched too, and the loop goes
\* on to the next generation.
C7_UnknownToolIsAResult ==
  \A k \in 1..Len(response) :
    (IsUnknown(response[k]) /\ i >= k)
      => LET text == <<"Error: Unknown tool \"", response[k].name, "\"">>
         IN  /\ Len(Ended) >= k
             /\ Ended[k].ev = "unknown"
             /\ Ended[k].result = text
             /\ \E p \in 1..Len(combinedResults) : OccursAt(combinedResults, text, p)
             /\ Len(response) = 1 => combinedResults = text
             /\ pc \in {"dispatch", "awaitTool"} => reports = {}
             /\ i = Len(response)
                  => /\ RoundComplete
                     /\ LastMessage.content = combinedResults
                     /\ Len(Ended) = Len(response)
                     /\ LoopWentOn

\* C7 witness: an unknown call first, a known call after it, and the next generation
\* under way.
C7_Witness ==
  /\ RoundComplete
  /\ pc = "generate"
  /\ Len(response) = 2
  /\ IsUnknown(response[1])
  /\ ~IsUnknown(response[2])

\* The body of the call's tool fails.
BodyFails(call) ==
  /\ ~IsUnknown(call)
  /\ call.name \in sandboxToolNames => sandboxManager
  /\ ToolBody(call).threw

\* C8: a failure inside a tool's execution does not escape the dispatch step: it is
\* the result "Error executing <tool>: <message>" of that call, the remaining calls
\* are executed, the Tool message is appended and the turn continues with the next
\* generation.
C8_ToolFailureIsAResult ==
  /\ "failed" \in reports => LastMessage.role # "assistant"
  /\ \A k \in 1..Len(response) :
       (BodyFails(response[k]) /\ i >= k)
         => LET text == <<"Error executing ", response[k].name, ": ">>
                          \o ToolBody(response[k]).text
            IN  /\ Len(Ended) >= k
                /\ Ended[k].result = text
                /\ \E p \in 1..Len(combinedResults) : OccursAt(combinedResults, text, p)
                /\ pc \in {"dispatch", "awaitTool"} => reports = {}
                /\ i = Len(response)
                     => /\ RoundComplete
                        /\ LastMessage.content = combinedResults
                        /\ Len(Ended) = Len(response)
                        /\ LoopWentOn

\* C8 witness: a failing call first, a succeeding call after it, and the next
\* generation under way.
C8_Witness ==
  /\ RoundComplete
  /\ pc = "generate"
  /\ Len(response) = 2
  /\ BodyFails(response[1])
  /\ ~BodyFails(response[2]) /\ ~IsUnknown(response[2])
  /\ Len(Ended) = 2

(***************************************************************************)
(* C9-C10. retryWithBackoff.                                               *)
(***************************************************************************)
\* The wrapped operation failed with a retryable error (429, 502, 503, 504, a rate
\* limit; 529 or an overloaded error at the Anthropic client).
Retryable(error) ==
  IF adapter = "anthropic"
  THEN error.status \in {429, 502, 503, 504, 529}
         \/ error.type \in {"overloaded_error", "rate_limit_error"}
  ELSE error.status \in {429, 502, 503, 504}
         \/ error.code \in {"rate_limit_exceeded", "server_error"}

AllRetryable(es) == \A k \in 1..Len(es) : Retryable(es[k])

\* C9: after k retryable failures in a row, 0 <= k <= maxRetries, the operation is
\* attempted again (attempt k+1, after exactly k sleeps, one after each failure),
\* and if it then succeeds the wrapper returns that value: k+1 attempts, k sleeps.
C9_SuccessAfterRetries ==
  /\ (AllRetryable(errs) /\ Len(errs) <= maxRetries)
       => /\ rpc \in {"sleep", "call", "returned", "off"}
          /\ rpc = "sleep" => Len(sleeps) = Len(errs) /\ attempts = Len(errs)
          /\ rpc = "call" => Len(sleeps) = Len(errs) /\ attempts = Len(errs) + 1
  /\ rpc = "returned"
       => /\ outcome = [kind |-> "value", value |-> "response"]
          /\ AllRetryable(errs)
          /\ Len(errs) <= maxRetries
          /\ attempts = Len(errs) + 1
          /\ Len(sleeps) = Len(errs)

\* C9 witness: three failures with status 429, three sleeps, then the success value.
C9_Witness ==
  /\ rpc = "returned"
  /\ Len(errs) = 3
  /\ \A k \in 1..3 : errs[k].status = 429
  /\ Len(sleeps) = 3
  /\ attempts = 4

\* C10: a failure with status 401 or 403 is never retried: it is the last attempt,
\* no sleep follows it, and an enriched error is raised at once; when it is the first
\* failure the operation was attempted exactly once and nothing was slept.
C10_AuthFailureNotRetried ==
  \A k \in 1..Len(errs) :
    errs[k].status \in {401, 403}
      => /\ k = Len(errs)
         /\ attempts = k
         /\ Len(sleeps) = k - 1
         /\ rpc = "thrown"
         /\ outcome = [kind |-> "error",
                       message |-> IF errs[k].status = 401 THEN "Invalid API key"
                                   ELSE "Access forbidden"]

\* C10 witness: the first attempt fails with status 401 and the wrapper has raised.
C10_Witness ==
  /\ rpc = "thrown"
  /\ Len(errs) = 1
  /\ errs[1].status = 401
  /\ attempts = 1
  /\ sleeps = <<>>

(***************************************************************************)
(* C11-C12. Exhausted retries, and the classification of failures.         *)
(***************************************************************************)
\* C11: when the operation fails with a retryable error on every attempt, the
\* wrapper makes exactly maxRetries+1 attempts separated by exactly maxRetries
\* sleeps and then raises an enriched error: it returns no value, does not swallow
\* the failure, and does not sleep after the last attempt.
C11_ExhaustedRetriesRaise ==
  /\ attempts <= maxRetries + 1
  /\ Len(sleeps) <= maxRetries
  /\ (AllRetryable(errs) /\ Len(errs) = maxRetries + 1)
       => /\ rpc = "thrown"
          /\ attempts = maxRetries + 1
          /\ Len(sleeps) = maxRetries
          /\ lastError = errs[maxRetries + 1]
          /\ outcome.kind = "error"
          /\ outcome.message \in {"Rate limit exceeded", "overloaded", "experiencing issues"}

\* C11 witness: four failures with status 503, three sleeps between them, and the
\* enriched error raised.
C11_Witness ==
  /\ rpc = "thrown"
  /\ Len(errs) = 4
  /\ \A k \in 1..4 : errs[k].status = 503
  /\ attempts = 4
  /\ Len(sleeps) = 3
  /\ outcome = [kind |-> "error", message |-> "experiencing issues"]

\* The classification table as stated, one table for both adapters.
ClaimedRetryable(error) ==
  \/ error.status \in {429, 529, 502, 503, 504}
  \/ error.type \in {"rate_limit_error", "overloaded_error"}

\* Failure number k of the call was followed by a sleep and a further attempt.
Retried(k) == Len(sleeps) >= k

\* C12 (as stated): both adapters classify by one table: within the retry budget a
\* failure is retried exactly when its status is 429, 529, 502, 503 or 504 or its
\* type is rate_limit_error or overloaded_error; every other failure is raised at
\* once.
C12_OneTableForBothAdapters ==
  \A k \in 1..Len(errs) :
    k <= maxRetries
      => /\ Retried(k) <=> ClaimedRetryable(errs[k])
         /\ ~ClaimedRetryable(errs[k]) => rpc = "thrown" /\ k = Len(errs)

\* C12 (amended): each adapter has its own table. The Anthropic adapter retries
\* exactly the statuses 429, 502, 503, 504, 529 and the types rate_limit_error and
\* overloaded_error; the OpenAI adapter retries exactly the statuses 429, 502, 503,
\* 504 and the codes rate_limit_exceeded and server_error, so that 529 is fatal
\* there and a 500 with code server_error is retried. Every other failure is fatal
\* and is raised at once, with no sleep and no further attempt.
C12_OneTablePerAdapter ==
  \A k \in 1..Len(errs) :
    k <= maxRetries
      => /\ Retried(k) <=> Retryable(errs[k])
         /\ ~Retryable(errs[k])
              => /\ rpc = "thrown"
                 /\ k = Len(errs)
                 /\ attempts = k
                 /\ outcome.kind = "error"

\* C12 witness: the OpenAI adapter raises a 529 after a single attempt, and has
\* retried a 500 with code server_error before it.
C12_Witness ==
  /\ adapter = "openai"
  /\ rpc = "thrown"
  /\ Len(errs) = 2
  /\ errs[1] = [status |-> 500, type |-> "", code |-> "server_error"]
  /\ errs[2].status = 529
  /\ Len(sleeps) = 1
  /\ attempts = 2

(***************************************************************************)
(* C13. The toolCalls of a response.                                       *)
(***************************************************************************)
\* v is a list (possibly empty), not undefined.
IsList(v) == v # Undefined /\ DOMAIN v = 1..Len(v)

\* C13: whatever the vendor answered, the toolCalls of the response of a generate
\* call is a list, and the empty list when the answer invoked no tool: the response
\* being processed and every Assistant message of the history carry a defined
\* toolCalls list.
C13_ToolCallsIsAList ==
  /\ IsList(response)
  /\ \A k \in 1..Len(conversationHistory) :
       LET m == conversationHistory[k]
       IN  m.role = "assistant"
             => /\ IsList(m.toolCalls)
                /\ m.content = <<"Done.">> => m.toolCalls = <<>>
                /\ \A j \in 1..Len(m.toolCalls) : m.toolCalls[j] \in Calls

\* C13 witness: a turn whose second generation answered without invoking a tool.
C13_Witness ==
  /\ TurnOver
  /\ reports = {"completed"}
  /\ TurnRounds = 1
  /\ LastMessage = [role |-> "assistant", content |-> <<"Done.">>, toolCalls |-> <<>>]

(***************************************************************************)
(* C14-C15. The request of the block-protocol adapter.                     *)
(***************************************************************************)
IsToolUse(block) == block.type = "tool_use"

IsToolResult(block) == block.type = "tool_result"

\* The content blocks, in order, of a sequence of formatted messages.
BlocksOf(msgs) == Flatten([j \in 1..Len(msgs) |-> msgs[j].blocks])

\* A request is formatted from the history: a generate call has been issued.
RequestSent == pc = "generate"

\* C14: in a request of the Anthropic adapter, an Assistant message with N tool
\* calls has become N tool_use blocks in call order with pairwise distinct ids, and
\* the Tool message the loop appended for those calls has become N tool_result
\* blocks whose tool_use_id are those ids in the same order; this holds at every
\* request of a run.
C14_BlocksMatchByPosition ==
  [](RequestSent =>
      \A perMs \in ReadsPerMs :
        LET h == conversationHistory
            pushed == PushedForAnthropic(h, perMs)
        IN  \A k \in 1..Len(h) :
              IsToolCalling(h[k])
                => LET calls == h[k].toolCalls
                       uses == SelectSeq(BlocksOf(pushed[k]), IsToolUse)
                   IN  /\ Len(pushed[k]) = 1
                       /\ pushed[k][1].role = "assistant"
                       /\ Len(uses) = Len(calls)
                       /\ \A j \in 1..Len(uses) :
                            /\ uses[j].name = calls[j].name
                            /\ uses[j].input = calls[j].parameters
                            /\ \A l \in 1..Len(uses) : l # j => uses[l].id # uses[j].id
                       /\ (k < Len(h) /\ h[k + 1].role = "tool")
                            => LET results == BlocksOf(pushed[k + 1])
                               IN  /\ Len(results) = Len(calls)
                                   /\ \A j \in 1..Len(results) :
                                        /\ IsToolResult(results[j])
                                        /\ results[j].id = uses[j].id)

\* C14 witness: a request whose history ends with a round of two tool calls, all
\* formatted within one millisecond, with two tool_result blocks for its Tool message.
C14_Witness ==
  /\ RequestSent
  /\ RoundComplete
  /\ Len(response) = 2
  /\ LET f == formatMessagesForAnthropic(conversationHistory, 0)
     IN  /\ Len(f) = Len(conversationHistory) + 1
         /\ f[Len(f) - 1].blocks[1].type = "tool_result"
         /\ f[Len(f) - 1].blocks[1].id = <<"call_", 0, "_", 0>>
         /\ f[Len(f)].blocks[1].type = "tool_result"
         /\ f[Len(f)].blocks[1].id = <<"call_", 0, "_", 1>>

\* The Tool messages hold the separator only where the loop put it between two
\* results: no tool result contains it.
MarkerFree(h) ==
  \A k \in 2..Len(h) :
    h[k].role = "tool" => Cardinality(SeparatorAt(h[k].content)) = Len(h[k - 1].toolCalls) - 1

\* Index of the first Assistant message of h after message k (Len(h) + 1: none).
NextAssistant(h, k) ==
  CHOOSE n \in (k + 1)..(Len(h) + 1) :
    /\ n <= Len(h) => h[n].role = "assistant"
    /\ \A j \in (k + 1)..(n - 1) : h[j].role # "assistant"

\* C15: in every request the Anthropic adapter formats from a history of the loop
\* whose tool results do not contain the separator, each tool_use block is answered
\* by exactly one tool_result block with its id among the messages pushed after its
\* assistant message and before the next assistant message.
C15_EveryToolUseAnswered ==
  (RequestSent /\ MarkerFree(conversationHistory)) =>
    \A perMs \in ReadsPerMs :
      LET h == conversationHistory
          pushed == PushedForAnthropic(h, perMs)
      IN  \A k \in 1..Len(h) :
            IsToolCalling(h[k])
              => LET uses == SelectSeq(BlocksOf(pushed[k]), IsToolUse)
                     after == BlocksOf(Flatten(SubSeq(pushed, k + 1, NextAssistant(h, k) - 1)))
                 IN  \A j \in 1..Len(uses) :
                       Cardinality({l \in 1..Len(after) :
                                      IsToolResult(after[l]) /\ after[l].id = uses[j].id}) = 1

(***************************************************************************)
(* C16. The request of the flat-protocol adapter.                          *)
(***************************************************************************)
\* C16: in every request the OpenAI adapter formats from a history of the loop, an
\* assistant message with N tool calls carries the ids call_0 .. call_{N-1} in call
\* order, every tool message that follows it (before the next assistant message)
\* names one of those ids, and each of those ids is answered by one tool message.
C16_OneToolMessagePerCall ==
  RequestSent =>
    LET h == conversationHistory
        f == formatMessagesForOpenAI(h)
    IN  \A k \in 1..Len(h) :
          IsToolCalling(h[k])
            => LET n == Len(h[k].toolCalls)
                   ids == {<<"call_", j>> : j \in 0..(n - 1)}
                   answers == {l \in (k + 1)..(NextAssistant(h, k) - 1) : f[l].role = "tool"}
               IN  /\ f[k].tool_calls # Undefined
                   /\ Len(f[k].tool_calls) = n
                   /\ \A j \in 1..n :
                        /\ f[k].tool_calls[j].id = <<"call_", j - 1>>
                        /\ f[k].tool_calls[j].function.name = h[k].toolCalls[j].name
                   /\ \A l \in answers : f[l].tool_call_id \in ids
                   /\ \A id \in ids :
                        Cardinality({l \in answers : f[l].tool_call_id = id}) = 1

(***************************************************************************)
(* C17. A failing generate call.                                           *)
(***************************************************************************)
IsAssistant(m) == m.role = "assistant"

\* C17: when the generate call of a turn raises, the turn ends at once as failed:
\* the error is caught in executeInteractivePrompt (the application is back at its
\* prompt), no tool is dispatched and no further generate call is made, and the
\* history is what it was before the failure, with no Assistant message for the
\* failed generation.
C17_FailedGenerationEndsTurn ==
  /\ [](/\ pc \in {"idle", "generate", "dispatch", "awaitTool"}
        /\ "failed" \in reports
             => /\ pc = "idle"
                /\ running = {}
                /\ LastMessage.role \in {"user", "tool"}
                /\ genCalls = TurnRounds + 1
                /\ Len(SelectSeq(TurnMessages, IsAssistant)) = genCalls - 1)
  /\ [][("failed" \notin reports /\ "failed" \in reports')
          => /\ pc = "generate"
             /\ pc' = "idle"
             /\ conversationHistory' = conversationHistory
             /\ genCalls' = genCalls
             /\ execLog' = execLog
             /\ reports' = reports \cup {"failed"}]_vars

\* C17 witness: the third generate call of a turn has raised, after two tool rounds.
C17_Witness ==
  /\ TurnOver
  /\ reports = {"failed"}
  /\ genCalls = 3
  /\ TurnRounds = 2
  /\ LastMessage.role = "tool"

(***************************************************************************)
(* C18. The history only grows.                                            *)
(***************************************************************************)
\* C18: every step of a turn, the steps that end it by loop detection, by the
\* iteration limit or by a failure included, leaves the history as it was or
\* appends to it: its length does not decrease and the messages it held stay at
\* their place, unmodified.
C18_HistoryAppendOnly ==
  [][/\ Len(conversationHistory') >= Len(conversationHistory)
     /\ SubSeq(conversationHistory', 1, Len(conversationHistory)) = conversationHistory]_vars

\* C18 witness: a second turn that was aborted by loop detection after a first turn
\* that failed, the history holding the messages of both.
C18_Witness ==
  /\ TurnOver
  /\ turns = 2
  /\ reports = {"loop"}
  /\ TurnStart >= 2
  /\ conversationHistory[TurnStart - 1].role = "tool"
  /\ Len(TurnMessages) = 5

(***************************************************************************)
(* C19. The loop-detection buffer.                                         *)
(***************************************************************************)
\* The last n elements of s, or all of s when it has fewer.
LastOf(s, n) == SubSeq(s, IF Len(s) > n THEN Len(s) - n + 1 ELSE 1, Len(s))

\* C19 (as stated): the buffer holds at most 3 signatures and always equals the most
\* recent (up to 3) signatures of the tool-calling generations of the current turn,
\* in order: one is inserted per tool-calling generation.
C19_BufferIsLastThreeSignatures ==
  /\ Len(lastToolCalls) <= 3
  /\ lastToolCalls = LastOf(TurnSignatures, 3)

\* Signatures of the tool-calling generations of the turn that passed loop
\* detection: all of them but that of the generation that was aborted, if any.
PassedSignatures ==
  IF "loop" \in reports
  THEN SubSeq(TurnSignatures, 1, Len(TurnSignatures) - 1)
  ELSE TurnSignatures

\* C19 (amended): the buffer holds at most 3 signatures and always equals the most
\* recent (up to 3) signatures, in order, of the tool-calling generations of the
\* current turn that passed loop detection: the signature of the generation at which
\* the turn is aborted is compared with the buffer but not inserted.
C19_BufferIsLastThreePassed ==
  /\ Len(lastToolCalls) <= 3
  /\ lastToolCalls = LastOf(PassedSignatures, 3)

\* C19 witness: the sixth tool-calling generation of a turn has been inserted, the
\* buffer holds three signatures that are not all equal, older ones were evicted.
C19_Witness ==
  /\ pc = "dispatch"
  /\ Len(TurnSignatures) = 6
  /\ Len(lastToolCalls) = 3
  /\ lastToolCalls[1] # lastToolCalls[2]
  /\ lastToolCalls[3] = TurnSignatures[6]

(***************************************************************************)
(* C20. Termination of a turn.                                             *)
(***************************************************************************)
\* C20: provided every provider call and every tool execution settles, every turn
\* reaches a terminal state; a turn makes at most 25 generate calls and its
\* iteration counter never exceeds 25, whatever the model answers.
C20_TurnTerminates ==
  /\ [](iteration <= maxIterations /\ genCalls <= maxIterations)
  /\ (pc # "idle") ~> (pc = "idle")

\* C20 witness: a turn of 25 tool-calling generations with alternating signatures,
\* which loop detection let pass, has ended at the iteration limit.
C20_Witness ==
  /\ TurnOver
  /\ iteration = maxIterations
  /\ genCalls = maxIterations
  /\ "loop" \notin reports
  /\ Len(TurnSignatures) = maxIterations
  /\ \E k \in 2..maxIterations : TurnSignatures[k] # TurnSignatures[k - 1]

(***************************************************************************)
(* C21. One awaited operation at a time.                                   *)
(***************************************************************************)
\* Awaited operations in flight: the generate call and the tool executions.
InFlight == (IF pc = "generate" THEN 1 ELSE 0) + Cardinality(running)

\* The tool execution in flight was requested by the generation that has returned:
\* its Assistant message is the last message of the history.
ToolAfterItsGeneration ==
  running # {} =>
    /\ pc = "awaitTool"
    /\ running = {i}
    /\ i < Len(response)
    /\ IsToolCalling(LastMessage)
    /\ LastMessage.toolCalls = response

\* A generate call in flight follows the User message, or the Tool message of a
\* round whose calls have all ended.
GenerationAfterItsRound ==
  pc = "generate" =>
    /\ running = {}
    /\ LastMessage.role \in {"user", "tool"}
    /\ LastMessage.role = "tool" =>
         /\ i = Len(response)
         /\ Len(Ended) = Len(response)

\* C21: at most one awaited operation is in flight; a tool runs only after the
\* generation that requested it has returned and its Assistant message is stored; a
\* generate call is in flight only after the prompt or after every tool call of the
\* previous response has ended and the Tool message is appended; and a step that
\* takes a new prompt starts from a turn in a terminal state (or from no turn at
\* all) with nothing in flight.
C21_OneAwaitedOperation ==
  /\ [](InFlight <= 1 /\ ToolAfterItsGeneration /\ GenerationAfterItsRound)
  /\ [][/\ turns' # turns =>
             /\ pc = "idle"
             /\ InFlight = 0
             /\ turns > 0 => reports # {}
        /\ (pc' = "awaitTool" /\ pc # "awaitTool") => pc = "dispatch"
        /\ (pc' = "generate" /\ turns' = turns) =>
             /\ pc \in {"dispatch", "awaitTool"}
             /\ i' = Len(response)
             /\ IsToolMessage(conversationHistory'[Len(conversationHistory')])
             /\ Len(conversationHistory') = Len(conversationHistory) + 1]_vars

\* A second prompt is being answered after a turn of two tool calls, the second
\* of which is in flight in a later round of the new turn.
C21_Witness ==
  /\ turns = 2
  /\ pc = "awaitTool"
  /\ running = {1}
  /\ Len(response) = 2
  /\ TurnRounds >= 1

(***************************************************************************)
(* C22. The counter and the buffer are per-turn scratch state.             *)
(***************************************************************************)
\* The first generate call of a prompt is in flight.
FirstGeneration == pc = "generate" /\ genCalls = 1

\* C22: every prompt starts continueConversation with the counter at 0 and an empty
\* buffer, whatever the previous turn did: while the first generate call of a prompt
\* is in flight the counter shows the one increment of this iteration and the
\* buffer is empty; the counter always equals the number of generate calls made for
\* the current prompt, the buffer never holds more signatures than this prompt has
\* had generations, a loop is reported only at the third generation of the prompt or
\* later, and the iteration limit only after 25 generations of the prompt.
C22_ScratchIsPerTurn ==
  /\ FirstGeneration => iteration - 1 = 0 /\ lastToolCalls = <<>>
  /\ turns > 0 => iteration = genCalls
  /\ Len(lastToolCalls) <= genCalls
  /\ "loop" \in reports => genCalls >= 3
  /\ "max_iterations" \in reports => genCalls = maxIterations

\* The first generate call of a second prompt is in flight, after a turn that loop
\* detection aborted with a full buffer (its Assistant message has no Tool message).
C22_Witness ==
  /\ FirstGeneration
  /\ turns = 2
  /\ Len(conversationHistory) >= 7
  /\ IsToolCalling(conversationHistory[Len(conversationHistory) - 1])
  /\ lastToolCalls = <<>>

(***************************************************************************)
(* C23. The history and the system preamble.                               *)
(***************************************************************************)
\* Times the system preamble occurs in a vendor request.
PreambleCount(request) ==
  (IF request.system = SystemPreamble THEN 1 ELSE 0)
  + Cardinality({k \in 1..Len(request.messages) :
                   /\ request.messages[k].role = "system"
                   /\ request.messages[k].content = SystemPreamble})

\* Messages of a vendor request that have the system role.
SystemMessages(request) ==
  Cardinality({k \in 1..Len(request.messages) : request.messages[k].role = "system"})

\* C23: no message of the history has the system role, and whenever a generate
\* call is in flight, with either adapter and any clock, the call leaves the
\* history as it is, its request carries the system preamble exactly once and no
\* other system message, and all its other messages come from the history (the
\* OpenAI request has one message per history message after the system message).
C23_PreambleOncePerRequest ==
  /\ [](\A k \in 1..Len(conversationHistory) :
          conversationHistory[k].role \in {"user", "assistant", "tool"})
  /\ [](RequestSent =>
          \A client \in Clients, perMs \in ReadsPerMs :
            LET g == generateResponseWithHistory(client, conversationHistory, perMs)
            IN  /\ g.messages = conversationHistory
                /\ PreambleCount(g.request) = 1
                /\ SystemMessages(g.request) = (IF client = "openai" THEN 1 ELSE 0)
                /\ client = "openai" =>
                     /\ Len(g.request.messages) = Len(conversationHistory) + 1
                     /\ g.request.messages[1] = systemMessage)

\* The third generate call of a second prompt is in flight: the preamble has been
\* sent with at least three earlier requests.
C23_Witness ==
  /\ RequestSent
  /\ turns = 2
  /\ genCalls >= 3
  /\ Len(conversationHistory) >= 8
  /\ PreambleCount(generateResponseWithHistory("openai", conversationHistory, 0).request) = 1

(***************************************************************************)
(* C24. Which tool set executes a call.                                    *)
(***************************************************************************)
\* The first set of the order that lists the name ("none": no set does).
FirstHolder(order, sets, name) ==
  LET holders == {k \in 1..Len(order) : name \in sets[order[k]]}
  IN  IF holders = {} THEN "none"
      ELSE order[CHOOSE k \in holders : \A j \in holders : k <= j]

\* The order in which the constructor builds the sets and the tool list offered to
\* the model concatenates them (app.ts:35-37, 218-222).
RegistrationOrder == <<"basic", "advanced", "sandbox">>

\* The order in which the dispatch tests the sets (app.ts:264-268).
TestOrder == <<"advanced", "basic", "sandbox">>

PowersOfTwo == <<1, 2, 4, 8>>

\* The interval [lo, hi) of whole milliseconds.
Interval(lo, hi) == lo..(hi - 1)

\* C25: the k-th sleep of a call follows the failure of attempt k - 1 and lasts
\* baseDelay * 2^(k-1) ms plus a jitter of at least 0 and less than 1000 ms; a call
\* sleeps at most three times, for [1000, 2000), [2000, 3000) and [4000, 5000) ms,
\* and each sleep is strictly longer than the one before.
C25_BackoffDelays ==
  /\ Len(sleeps) <= maxRetries
  /\ Len(sleeps) <= Len(errs)
  /\ \A k \in 1..Len(sleeps) :
       /\ sleeps[k] - baseDelay * PowersOfTwo[k] \in Interval(0, 1000)
       /\ k = 1 => sleeps[k] \in Interval(1000, 2000)
       /\ k = 2 => sleeps[k] \in Interval(2000, 3000)
       /\ k = 3 => sleeps[k] \in Interval(4000, 5000)
       /\ k > 1 => sleeps[k - 1] < sleeps[k]

\* The third retry is being made after the longest first sleep and the shortest
\* second one.
C25_Witness ==
  /\ rpc = "call"
  /\ Len(sleeps) = 3
  /\ sleeps[1] = 1999
  /\ sleeps[2] = 2000
  /\ sleeps[3] = 4999

(***************************************************************************)
(* C26. The messages of a completed turn.                                  *)
(***************************************************************************)
\* The latest turn ended with an answer without tool calls.
TurnCompleted == TurnOver /\ "completed" \in reports

\* C26: when a turn has ended with an answer without tool calls after k
\* tool-calling generations, the history holds, from the turn's User message on,
\* exactly 2k+2 messages: the User message, k pairs of an Assistant message with
\* tool calls and a Tool message, and the final Assistant message without tool
\* calls; k + 1 generate calls were made for the prompt.
C26_CompletedTurnLayout ==
  TurnCompleted =>
    LET h == conversationHistory
        s == TurnStart
        k == Len(TurnSignatures)
    IN  /\ s > 0
        /\ h[s] = UserMessage
        /\ Len(h) - (s - 1) = 2 * k + 2
        /\ \A j \in 1..k : IsToolCalling(h[s + 2 * j - 1]) /\ IsToolMessage(h[s + 2 * j])
        /\ h[Len(h)].role = "assistant"
        /\ h[Len(h)].toolCalls = <<>>
        /\ genCalls = k + 1

\* The first turn made one tool round and then answered: four messages.
C26_Witness ==
  /\ TurnCompleted
  /\ turns = 1
  /\ TurnRounds = 1
  /\ Len(conversationHistory) = 4

(***************************************************************************)
(* C27. Tool results through the Tool message and back.                    *)
(***************************************************************************)
\* No result of the round that has just ended contains the separator.
RoundMarkerFree == \A k \in 1..Len(Ended) : SeparatorAt(Ended[k].result) = {}

\* C27: when the request after a round of N calls is formatted by the Anthropic
\* adapter and no result of the round contains the separator, the Tool message of
\* the round has become N tool_result blocks, and the content of the i-th block is
\* exactly the text the i-th call returned, without any label.
C27_BlocksRecoverResults ==
  (RoundComplete /\ RequestSent /\ RoundMarkerFree) =>
    \A perMs \in ReadsPerMs :
      LET h == conversationHistory
          pushed == PushedForAnthropic(h, perMs)
          blocks == BlocksOf(pushed[Len(h)])
      IN  /\ Len(blocks) = Len(response)
          /\ \A j \in 1..Len(blocks) :
               /\ IsToolResult(blocks[j])
               /\ blocks[j].text = Ended[j].result

(***************************************************************************)
(* C28. The tool_use ids of one request.                                   *)
(***************************************************************************)
\* C28: in every request the Anthropic adapter formats from the history, whatever
\* the (never decreasing) clock readings, no two tool_use blocks have the same id,
\* whether they belong to the same assistant message or to different ones.
C28_ToolUseIdsDistinct ==
  RequestSent =>
    \A perMs \in ReadsPerMs :
      LET uses == SelectSeq(BlocksOf(formatMessagesForAnthropic(conversationHistory, perMs)),
                            IsToolUse)
      IN  \A j, l \in 1..Len(uses) : j # l => uses[j].id # uses[l].id

(***************************************************************************)
(* C29. FileWatcher: queued changes reach onFileChange.                    *)
(***************************************************************************)
\* The change events not yet passed to onFileChange.
Unpassed == {k \in 1..Len(changes) : k \notin passed}

\* A change not yet passed is still queued: its path is in the pending set and a
\* timeout that will process the set is armed.
StillQueued(k) ==
  /\ pendingChanges # <<>>
  /\ changes[k] \in pendingChanges[1]
  /\ armedTimers # {}

\* C29: every change queued is eventually passed to onFileChange in some batch,
\* and until then it is not dropped: it stays in the pending set with a timeout
\* armed, also when it arrived while an earlier batch was being awaited.
C29_EveryChangeIsPassed ==
  /\ [](\A k \in Unpassed : StillQueued(k))
  /\ \A k \in 1..MaxChanges : (Len(changes) >= k) ~> (k \in passed)

(***************************************************************************)
(* C30. Single-shot executePrompt.                                         *)
(***************************************************************************)
\* The single-shot run has returned after executing every tool call.
ShotCompleted == pc = "shotDone" /\ "completed" \in reports

\* C30: a single-shot run makes one generate call, before any tool runs, and none
\* after; the calls of the response start one at a time in list order, each once,
\* and when the run completes every call has its result, in list order; no step of
\* the run changes the conversation history.
C30_SingleShotLeavesHistory ==
  /\ [](/\ genCalls <= 1
        /\ pc # "idle" => genCalls = 1
        /\ Cardinality(running) <= 1
        /\ \A j \in 1..Len(execLog) :
             LET e == execLog[j]
                 endedBefore == Len(SelectSeq(SubSeq(execLog, 1, j - 1), IsEnd))
             IN  /\ e.ev \in {"start", "unknown"} => e.idx = endedBefore
                 /\ e.ev = "return" =>
                      j > 1 /\ execLog[j - 1].ev = "start" /\ execLog[j - 1].idx = e.idx
        /\ ShotCompleted =>
             /\ Len(Ended) = Len(response)
             /\ \A k \in 1..Len(Ended) :
                  /\ Ended[k].idx = k - 1
                  /\ Ended[k].result =
                       (IF Ended[k].ev = "unknown" THEN UnknownToolResult(response[k].name)
                        ELSE Dispatch(response[k], sandboxManager).text))
  /\ [][/\ conversationHistory' = conversationHistory
        /\ genCalls' # genCalls => pc = "idle" /\ execLog = <<>>]_vars

\* A run on a history that holds an earlier exchange has completed after two tool
\* calls with different results.
C30_Witness ==
  /\ ShotCompleted
  /\ Len(conversationHistory) = 2
  /\ Len(response) = 2
  /\ Len(Ended) = 2
  /\ Ended[1].ev = "return"
  /\ Ended[1].result # Ended[2].result

====
